---- MODULE Spec2Model ----
(***************************************************************************)
(* Model of is-it-up: the /check handler of is_it_up/__main__.py (input    *)
(* validation, origin normalisation, the Redis-backed result cache, the    *)
(* outbound probe) and the TokenBucketRateLimiter of is_it_up/utils.py.    *)
(*                                                                         *)
(* Time is in milliseconds.  Redis keeps expiry times in milliseconds and  *)
(* answers TTL in whole seconds; datetime.now().replace(microsecond=0) and *)
(* int(time()) cut a reading down to its whole second.                     *)
(* Strings are sequences of one-character strings.                         *)
(***************************************************************************)
EXTENDS Integers, Sequences, FiniteSets, TLC

\* ---------------------------------------------------------------- bounds

\* Number of /check requests of one run (each request id is used once).
NumRequests == 2

\* Number of is_allowed calls recorded in one run of the limiter.
MaxCalls == 5

\* The clock reading (ms) at which the process starts.
StartTime == 10000

\* ------------------------------------------------------ program constants

_CACHE_TTL == 300

_UNREACHABLE_STATUS == -1

\* Query(max_length=100, ...)
MaxLength == 100

\* TokenBucketRateLimiter.__init__(capacity=128, fill_rate=2)
DefaultCapacity == 128

DefaultFillRate == 2

\* ---------------------------------------------------------------- helpers

Min(a, b) == IF a <= b THEN a ELSE b

\* int(time()) and datetime.now(timezone.utc).replace(microsecond=0):
\* a millisecond reading cut down to its whole second.
Seconds(t) == t \div 1000

Requests == 1 .. NumRequests

\* ------------------------------------------------------------- characters

AsciiLower == <<"a","b","c","d","e","f","g","h","i","j","k","l","m",
                "n","o","p","q","r","s","t","u","v","w","x","y","z">>

AsciiUpper == <<"A","B","C","D","E","F","G","H","I","J","K","L","M",
                "N","O","P","Q","R","S","T","U","V","W","X","Y","Z">>

Letters == {AsciiLower[i] : i \in 1..26} \cup {AsciiUpper[i] : i \in 1..26}

Digits == {"0","1","2","3","4","5","6","7","8","9"}

\* The character class of the Query pattern, [A-Za-z0-9\-\.]
PatternClass == Letters \cup Digits \cup {"-", "."}

\* urllib.parse.scheme_chars
SchemeChars == Letters \cup Digits \cup {"+", "-", "."}

\* str.lower() on one character
ToLower(c) ==
    IF \E i \in 1..26 : AsciiUpper[i] = c
    THEN AsciiLower[CHOOSE i \in 1..26 : AsciiUpper[i] = c]
    ELSE c

LowerSeq(s) == [i \in 1..Len(s) |-> ToLower(s[i])]

\* str.find for a set of characters: the first index (1-based) of a
\* character of cs in s, 0 when there is none.
FirstIn(s, cs) ==
    IF \E i \in 1..Len(s) : s[i] \in cs
    THEN CHOOSE i \in 1..Len(s) :
            s[i] \in cs /\ \A j \in 1..(i-1) : s[j] \notin cs
    ELSE 0

\* s[i:] of Python, with i a 1-based first index
From(s, i) == SubSeq(s, i, Len(s))

\* ------------------------------------------------- validation, urlparse

\* FastAPI's check of the query parameter: at most max_length characters,
\* and the pattern, which is searched for anywhere in the value (it is not
\* anchored), so one character of the class anywhere is enough.
Validate(w) ==
    /\ Len(w) <= MaxLength
    /\ \E i \in 1..Len(w) : w[i] \in PatternClass

\* urlsplit strips leading spaces before parsing.
LStrip(s) ==
    IF \E i \in 1..Len(s) : s[i] # " "
    THEN From(s, CHOOSE i \in 1..Len(s) :
                    s[i] # " " /\ \A j \in 1..(i-1) : s[j] = " ")
    ELSE <<>>

\* urlparse(website): scheme, netloc and path of the value (query and
\* fragment are split off the path and not used by the handler).
UrlParse(w) ==
    LET url0 == LStrip(w)
        i == FirstIn(url0, {":"})
        hasScheme == /\ i > 1
                     /\ url0[1] \in Letters
                     /\ \A j \in 1..(i-1) : url0[j] \in SchemeChars
        scheme == IF hasScheme THEN LowerSeq(SubSeq(url0, 1, i-1)) ELSE <<>>
        url1 == IF hasScheme THEN From(url0, i+1) ELSE url0
        hasNetloc == Len(url1) >= 2 /\ url1[1] = "/" /\ url1[2] = "/"
        afterSlashes == From(url1, 3)
        d == FirstIn(afterSlashes, {"/", "?", "#"})
        netloc == IF ~hasNetloc THEN <<>>
                  ELSE IF d = 0 THEN afterSlashes
                  ELSE SubSeq(afterSlashes, 1, d-1)
        url2 == IF ~hasNetloc THEN url1
                ELSE IF d = 0 THEN <<>>
                ELSE From(afterSlashes, d)
        f == FirstIn(url2, {"#"})
        url3 == IF f = 0 THEN url2 ELSE SubSeq(url2, 1, f-1)
        q == FirstIn(url3, {"?"})
        path == IF q = 0 THEN url3 ELSE SubSeq(url3, 1, q-1)
    IN [scheme |-> scheme, netloc |-> netloc, path |-> path]

\* not (o.netloc or o.path) or "." not in website
Malformed(w) ==
    LET o == UrlParse(w)
    IN \/ (o.netloc = <<>> /\ o.path = <<>>)
       \/ ~(\E i \in 1..Len(w) : w[i] = ".")

\* u = f"{o.scheme or 'https'}://{o.netloc or o.path}"
Origin(w) ==
    LET o == UrlParse(w)
    IN (IF o.scheme # <<>> THEN o.scheme ELSE <<"h","t","t","p","s">>)
       \o <<":", "/", "/">>
       \o (IF o.netloc # <<>> THEN o.netloc ELSE o.path)

\* ------------------------------------------------------------ the cache

\* A set that keeps the expiry of an entry the key already holds.
CacheSetKeepingExpiry(c, key, value, t) ==
    [k \in (DOMAIN c) \cup {key} |->
        IF k = key
        THEN [status |-> value,
              expires_at |-> IF key \in DOMAIN c
                             THEN c[key].expires_at
                             ELSE t + _CACHE_TTL * 1000]
        ELSE c[k]]

\* cache.set(redis_key, value, _CACHE_TTL) at clock reading t: the entry
\* replaces whatever the key held and expires _CACHE_TTL seconds later.
CacheSet(c, key, value, t) ==
    [k \in (DOMAIN c) \cup {key} |->
        IF k = key
        THEN [status |-> value, expires_at |-> t + _CACHE_TTL * 1000]
        ELSE c[k]]

\* Whether Redis still holds the key at clock reading t.
Live(c, key, t) == key \in DOMAIN c /\ c[key].expires_at > t

\* cache.get(redis_key): <<>> is None, <<v>> is the stored value.
CacheGet(c, key, t) == IF Live(c, key, t) THEN <<c[key].status>> ELSE <<>>

\* cache.ttl(redis_key): -2 when the key is gone, else the remaining time
\* in whole seconds, rounded to the nearest second as Redis does.
CacheTtl(c, key, t) ==
    IF Live(c, key, t)
    THEN (c[key].expires_at - t + 500) \div 1000
    ELSE -2

\* _result_with_status(status, offset) evaluated at clock reading t.
\* last_checked is kept as a whole second (isoformat of it is one-to-one).
ResultWithStatus(st, offset, t) ==
    [status |-> st,
     last_checked |-> IF offset # 0
                      THEN Seconds(t) - (_CACHE_TTL - offset)
                      ELSE Seconds(t)]

\* ----------------------------------------------------------------- inputs

LongWebsite == [i \in 1..(MaxLength + 1) |-> IF i = 2 THEN "." ELSE "a"]

\* The website values requests are made with.
Websites ==
    { <<"a", ".", "b">>,
      <<"a", "b">>,
      <<"a", ".", "b", "!">>,
      LongWebsite }

\* Status codes a probed host answers with.
StatusCodes == {200}

\* Clock readings (ms) at which something happens.
ClockReadings ==
    { StartTime, StartTime + 600, StartTime + 1000,
      StartTime + _CACHE_TTL * 1000 - 400,
      StartTime + _CACHE_TTL * 1000 }

\* Arguments of is_allowed, and the clock readings its calls see
\* (time() is the wall clock: a reading may lie before the previous one).
Costs == {1, 2}

LimiterReadings ==
    { StartTime - 1000, StartTime, StartTime + 500, StartTime + 1000 }

Capacities == {1, 2}

FillRates == {1, 2}

\* ------------------------------------------------------------------ state

VARIABLES
    now,         \* the clock, ms
    cache,       \* the Redis keys of this process: origin -> entry
    pc,          \* where each request is in check_website
    website,     \* each request's query parameter
    u,           \* each request's origin (and Redis key)
    status,      \* each request's reply of cache.get
    response,    \* each request's probe response: <<>> or <<status_code>>
    result,      \* the body computed by the return statement in the stream
    reply,       \* each request's HTTP reply: code and body
    probes,      \* outbound GETs each request has issued
    writes,      \* cache.set calls each request has made
    _capacity, _fill_rate, _tokens, _last_time,   \* the rate limiter
    hist         \* the is_allowed calls made so far: reading, cost, result

reqVars == <<pc, website, u, status, response, result, reply, probes, writes>>

bucketVars == <<_capacity, _fill_rate, _tokens, _last_time, hist>>

vars == <<now, cache, reqVars, bucketVars>>

NoReply == [code |-> 0, body |-> [detail |-> "pending"]]

NoResult == [status |-> 0, last_checked |-> 0]

InitRequests ==
    /\ cache = <<>>
    /\ pc = [r \in Requests |-> "idle"]
    /\ website = [r \in Requests |-> <<>>]
    /\ u = [r \in Requests |-> <<>>]
    /\ status = [r \in Requests |-> <<>>]
    /\ response = [r \in Requests |-> <<>>]
    /\ result = [r \in Requests |-> NoResult]
    /\ reply = [r \in Requests |-> NoReply]
    /\ probes = [r \in Requests |-> 0]
    /\ writes = [r \in Requests |-> 0]

\* TokenBucketRateLimiter(capacity, fill_rate) constructed at reading t
InitBucketWith(capacity, fill_rate, t) ==
    /\ _capacity = capacity
    /\ _fill_rate = fill_rate
    /\ _tokens = capacity
    /\ _last_time = Seconds(t)
    /\ hist = <<>>

Init ==
    /\ now = StartTime
    /\ InitRequests
    /\ InitBucketWith(DefaultCapacity, DefaultFillRate, StartTime)

\* ------------------------------------------------------- check_website

Finish(r, code, body) ==
    /\ pc' = [pc EXCEPT ![r] = "done"]
    /\ reply' = [reply EXCEPT ![r] = [code |-> code, body |-> body]]

\* Requests are taken in the order of their ids.
Arrives(r, w) ==
    /\ pc[r] = "idle"
    /\ \A q \in Requests : q < r => pc[q] # "idle"
    /\ website' = [website EXCEPT ![r] = w]

\* The query parameter fails FastAPI's validation: 422, the handler never runs.
RejectInvalid(r, w) ==
    /\ Arrives(r, w)
    /\ ~Validate(w)
    /\ Finish(r, 422, [detail |-> "validation error"])
    /\ UNCHANGED <<now, cache, u, status, response, result, probes, writes, bucketVars>>

\* raise HTTPException(400, "input website is malformed")
RejectMalformed(r, w) ==
    /\ Arrives(r, w)
    /\ Validate(w)
    /\ Malformed(w)
    /\ Finish(r, 400, [detail |-> "input website is malformed"])
    /\ UNCHANGED <<now, cache, u, status, response, result, probes, writes, bucketVars>>

\* u and redis_key are computed, then status := await cache.get(redis_key)
Lookup(r, w) ==
    /\ Arrives(r, w)
    /\ Validate(w)
    /\ ~Malformed(w)
    /\ u' = [u EXCEPT ![r] = Origin(w)]
    /\ status' = [status EXCEPT ![r] = CacheGet(cache, Origin(w), now)]
    /\ pc' = [pc EXCEPT ![r] =
                IF CacheGet(cache, Origin(w), now) # <<>> THEN "ttl" ELSE "probe"]
    /\ UNCHANGED <<now, cache, response, result, reply, probes, writes, bucketVars>>

\* A cached answer that takes a token from the limiter.
TtlDebiting(r) ==
    /\ pc[r] = "ttl"
    /\ LET ttl == CacheTtl(cache, u[r], now)
       IN IF ttl > 0
          THEN /\ Finish(r, 200, ResultWithStatus(status[r][1], ttl, now))
               /\ _tokens' = _tokens - 1
          ELSE /\ pc' = [pc EXCEPT ![r] = "probe"]
               /\ UNCHANGED <<reply, _tokens>>
    /\ UNCHANGED <<now, cache, website, u, status, response, result, probes, writes,
                   _capacity, _fill_rate, _last_time, hist>>

\* A lookup that asks for the TTL again while it is not positive.
TtlRetrying(r) ==
    /\ pc[r] = "ttl"
    /\ LET ttl == CacheTtl(cache, u[r], now)
       IN IF ttl > 0
          THEN Finish(r, 200, ResultWithStatus(status[r][1], ttl, now))
          ELSE UNCHANGED <<pc, reply>>
    /\ UNCHANGED <<now, cache, website, u, status, response, result, probes, writes, bucketVars>>

\* (ttl := await cache.ttl(redis_key)) > 0, and on a hit
\* return _result_with_status(int(status.decode()), ttl)
Ttl(r) ==
    /\ pc[r] = "ttl"
    /\ LET ttl == CacheTtl(cache, u[r], now)
       IN IF ttl > 0
          THEN Finish(r, 200, ResultWithStatus(status[r][1], ttl, now))
          ELSE /\ pc' = [pc EXCEPT ![r] = "probe"]
               /\ UNCHANGED reply
    /\ UNCHANGED <<now, cache, website, u, status, response, result, probes, writes, bucketVars>>

\* client.stream("GET", u, ...) is entered and the host answers with code s
ProbeResponse(r, s) ==
    /\ pc[r] = "probe"
    /\ probes' = [probes EXCEPT ![r] = @ + 1]
    /\ response' = [response EXCEPT ![r] = <<s>>]
    /\ pc' = [pc EXCEPT ![r] = "set"]
    /\ UNCHANGED <<now, cache, website, u, status, result, reply, writes, bucketVars>>

\* client.stream raises a RequestError: the host is unreachable
ProbeRequestError(r) ==
    /\ pc[r] = "probe"
    /\ probes' = [probes EXCEPT ![r] = @ + 1]
    /\ pc' = [pc EXCEPT ![r] = "unreachable"]
    /\ UNCHANGED <<now, cache, website, u, status, response, result, reply, writes, bucketVars>>

\* client.stream raises anything else: the bare except answers 500
ProbeFault(r) ==
    /\ pc[r] = "probe"
    /\ probes' = [probes EXCEPT ![r] = @ + 1]
    /\ Finish(r, 500, [detail |-> "Server error, unable to reach target website"])
    /\ UNCHANGED <<now, cache, website, u, status, response, result, writes, bucketVars>>

\* await cache.set(redis_key, response.status_code, _CACHE_TTL), then the
\* return statement computes _result_with_status(response.status_code)
Set(r) ==
    /\ pc[r] = "set"
    /\ cache' = CacheSet(cache, u[r], response[r][1], now)
    /\ writes' = [writes EXCEPT ![r] = @ + 1]
    /\ result' = [result EXCEPT ![r] = ResultWithStatus(response[r][1], 0, now)]
    /\ pc' = [pc EXCEPT ![r] = "exit"]
    /\ UNCHANGED <<now, website, u, status, response, reply, probes, bucketVars>>

\* the stream's context is left (the response is closed) and the body returned
ExitOk(r) ==
    /\ pc[r] = "exit"
    /\ Finish(r, 200, result[r])
    /\ UNCHANGED <<now, cache, website, u, status, response, result, probes, writes, bucketVars>>

\* A RequestError on closing the response that makes the probe start again.
ExitRetrying(r) ==
    /\ pc[r] = "exit"
    /\ pc' = [pc EXCEPT ![r] = "probe"]
    /\ UNCHANGED <<now, cache, website, u, status, response, result, reply, probes, writes, bucketVars>>

\* closing the response raises a RequestError: caught by except RequestError
ExitRequestError(r) ==
    /\ pc[r] = "exit"
    /\ pc' = [pc EXCEPT ![r] = "unreachable"]
    /\ UNCHANGED <<now, cache, website, u, status, response, result, reply, probes, writes, bucketVars>>

\* closing the response raises anything else (a cancellation, say):
\* caught by the bare except, which answers 500
ExitFault(r) ==
    /\ pc[r] = "exit"
    /\ Finish(r, 500, [detail |-> "Server error, unable to reach target website"])
    /\ UNCHANGED <<now, cache, website, u, status, response, result, probes, writes, bucketVars>>

\* await cache.set(redis_key, _UNREACHABLE_STATUS, _CACHE_TTL)
\* return _result_with_status(_UNREACHABLE_STATUS)
StoreUnreachable(r) ==
    /\ pc[r] = "unreachable"
    /\ cache' = CacheSet(cache, u[r], _UNREACHABLE_STATUS, now)
    /\ writes' = [writes EXCEPT ![r] = @ + 1]
    /\ Finish(r, 200, ResultWithStatus(_UNREACHABLE_STATUS, 0, now))
    /\ UNCHANGED <<now, website, u, status, response, result, probes, bucketVars>>

\* time passes
Tick(t) ==
    /\ t > now
    /\ now' = t
    /\ UNCHANGED <<cache, reqVars, bucketVars>>

Next ==
    \/ \E r \in Requests, w \in Websites : RejectInvalid(r, w)
    \/ \E r \in Requests, w \in Websites : RejectMalformed(r, w)
    \/ \E r \in Requests, w \in Websites : Lookup(r, w)
    \/ \E r \in Requests : Ttl(r)
    \/ \E r \in Requests, s \in StatusCodes : ProbeResponse(r, s)
    \/ \E r \in Requests : ProbeRequestError(r)
    \/ \E r \in Requests : ProbeFault(r)
    \/ \E r \in Requests : Set(r)
    \/ \E r \in Requests : ExitOk(r)
    \/ \E r \in Requests : ExitRequestError(r)
    \/ \E r \in Requests : ExitFault(r)
    \/ \E r \in Requests : StoreUnreachable(r)
    \/ \E t \in ClockReadings : Tick(t)

Spec == Init /\ [][Next]_vars

\* The steps of request r after its arrival: each is the completion of an
\* await (a Redis reply, the probe's answer or failure, the response closed).
Step(r) ==
    \/ Ttl(r)
    \/ \E s \in StatusCodes : ProbeResponse(r, s)
    \/ ProbeRequestError(r)
    \/ ProbeFault(r)
    \/ Set(r)
    \/ ExitOk(r)
    \/ ExitRequestError(r)
    \/ ExitFault(r)
    \/ StoreUnreachable(r)

\* Redis answers, the probe returns or fails, and the event loop resumes
\* every coroutine whose await has completed.
SpecLive == Spec /\ \A r \in Requests : WF_vars(Step(r))

\* ------------------------------------------ TokenBucketRateLimiter

\* Refill with the elapsed seconds not multiplied by the fill rate.
RefillIgnoringRate(tokens, last_time, current_time, capacity, fill_rate) ==
    Min(capacity, tokens + (current_time - last_time))

\* min(self._capacity, self._tokens + (current_time - self._last_time) * self._fill_rate)
Refill(tokens, last_time, current_time, capacity, fill_rate) ==
    Min(capacity, tokens + (current_time - last_time) * fill_rate)

\* is_allowed that takes the tokens even when it refuses.
IsAllowedDebitingAlways(tokens_requested, t) ==
    LET current_time == Seconds(t)
        refilled == Refill(_tokens, _last_time, current_time, _capacity, _fill_rate)
        allowed == refilled >= tokens_requested
    IN /\ Len(hist) < MaxCalls
       /\ _last_time' = current_time
       /\ _tokens' = refilled - tokens_requested
       /\ hist' = Append(hist, [t |-> t, cost |-> tokens_requested, ok |-> allowed])
       /\ UNCHANGED <<_capacity, _fill_rate, now, cache, reqVars>>

\* is_allowed that does not record the time of the refill.
IsAllowedKeepingLastTime(tokens_requested, t) ==
    LET current_time == Seconds(t)
        refilled == Refill(_tokens, _last_time, current_time, _capacity, _fill_rate)
        allowed == refilled >= tokens_requested
    IN /\ Len(hist) < MaxCalls
       /\ _tokens' = IF allowed THEN refilled - tokens_requested ELSE refilled
       /\ hist' = Append(hist, [t |-> t, cost |-> tokens_requested, ok |-> allowed])
       /\ UNCHANGED <<_last_time, _capacity, _fill_rate, now, cache, reqVars>>

\* is_allowed(tokens_requested) called at clock reading t
IsAllowed(tokens_requested, t) ==
    LET current_time == Seconds(t)
        refilled == Refill(_tokens, _last_time, current_time, _capacity, _fill_rate)
        allowed == refilled >= tokens_requested
    IN /\ Len(hist) < MaxCalls
       /\ _last_time' = current_time
       /\ _tokens' = IF allowed THEN refilled - tokens_requested ELSE refilled
       /\ hist' = Append(hist, [t |-> t, cost |-> tokens_requested, ok |-> allowed])
       /\ UNCHANGED <<_capacity, _fill_rate, now, cache, reqVars>>

InitBucket ==
    /\ now = StartTime
    /\ InitRequests
    /\ \E capacity \in Capacities, fill_rate \in FillRates :
          InitBucketWith(capacity, fill_rate, StartTime)

NextBucket == \E c \in Costs, t \in LimiterReadings : IsAllowed(c, t)

SpecBucket == InitBucket /\ [][NextBucket]_vars

\* ------------------------------------------------- the normaliser alone

\* Longest website value of the enumerated inputs.
MaxInputLen == 3

\* Characters of the enumerated website values.
InputChars == {"a", ".", "/", ":", "?", "#", "!"}

\* Website values: every string over InputChars up to MaxInputLen, a URL
\* with scheme, path and query, a host followed by a path, and a value one
\* character longer than max_length.
NormInputs ==
    UNION { [1..n -> InputChars] : n \in 0..MaxInputLen }
    \cup { <<"h","t","t","p",":","/","/","a",".","b","/","p","?","x">>,
           <<"a",".","b","/","p">>,
           LongWebsite }

\* One request: validation, the malformed check, and the origin that
\* becomes the cache key and the probe target.
NextNorm ==
    \/ \E w \in NormInputs : RejectInvalid(1, w)
    \/ \E w \in NormInputs : RejectMalformed(1, w)
    \/ \E w \in NormInputs : Lookup(1, w)

SpecNorm == Init /\ [][NextNorm]_vars

\* ----------------------------------------------------------------- claims

RECURSIVE SumUpTo(_, _)
SumUpTo(f, n) == IF n = 0 THEN 0 ELSE f[n] + SumUpTo(f, n - 1)

\* Outbound probes issued so far by all requests.
TotalProbes == SumUpTo(probes, NumRequests)

\* C1: a cache-miss request probes only after is_allowed returned true for
\* it, so every probe has debited one token: within the second in which the
\* full bucket was built (no refill is possible) the probes issued are at
\* most the tokens debited, hence at most capacity, and the next miss is
\* answered 429 without a probe.
C1_ProbeOnlyAfterAdmission ==
    Seconds(now) = Seconds(StartTime) => TotalProbes <= _capacity - _tokens

\* C2: a /check answered from the cache returns the status of the stored
\* result and, as last_checked, the time T at which that result was stored,
\* wherever in the window the read falls.
C2_SameStatusAndLastChecked ==
    [][\A r \in Requests :
          (pc[r] = "ttl" /\ pc'[r] = "done") =>
             /\ reply'[r].body.status = cache[u[r]].status
             /\ reply'[r].body.last_checked =
                   Seconds(cache[u[r]].expires_at - _CACHE_TTL * 1000)]_vars

\* C3: an entry written at T is a hit for every lookup before T+300s and
\* absent for every lookup from T+300s on: a lookup reports a miss only when
\* no unexpired entry is there, and a hit only when one is.
C3_HitExactlyWithinTtl ==
    [][\A r \in Requests :
          /\ (pc[r] \in {"idle", "ttl"} /\ pc'[r] = "probe")
                => ~Live(cache, u'[r], now)
          /\ (pc[r] = "ttl" /\ pc'[r] = "done")
                => Live(cache, u[r], now)]_vars

\* C4: a request that starts while a result stored less than 300s ago is
\* in the cache for its origin issues no probe and writes nothing.
C4_NoProbeWithinTtl ==
    \A r \in Requests : status[r] # <<>> => (probes[r] = 0 /\ writes[r] = 0)

\* C5: a website value that is empty, longer than 128 characters, holds a
\* character outside [A-Za-z0-9.-] or has no period is answered with a
\* client error, without a probe and without a cache write.
C5_BadInputRejected ==
    \A r \in Requests :
       LET w == website[r]
           fails == \/ Len(w) = 0
                    \/ Len(w) > 128
                    \/ \E i \in 1..Len(w) : w[i] \notin PatternClass
                    \/ ~(\E i \in 1..Len(w) : w[i] = ".")
       IN (pc[r] # "idle" /\ fails) =>
             /\ probes[r] = 0
             /\ writes[r] = 0
             /\ (pc[r] = "done" => reply[r].code \in 400..499)

\* The first n calls were is_allowed(1) with zero elapsed time.
FirstCallsAtStart(n) ==
    \A i \in 1..n : hist[i].cost = 1 /\ hist[i].t = StartTime

\* Calls from..to were is_allowed(1) made `wait` ms after the start.
CallsAfterWait(from, to, wait) ==
    \A i \in from..to : hist[i].cost = 1 /\ hist[i].t = StartTime + wait

\* C6 (as amended): from a full bucket of capacity C, exactly C consecutive
\* is_allowed(1) calls with zero elapsed time return true and the next
\* returns false; after waiting one whole second exactly
\* min(C, fill_rate) more is_allowed(1) calls return true and the one after
\* them returns false.
C6_BurstThenRefillPerSecond ==
    \A k \in 1..Len(hist) :
       ( /\ k <= _capacity + 2 + Min(_capacity, _fill_rate)
         /\ FirstCallsAtStart(Min(k, _capacity + 1))
         /\ CallsAfterWait(_capacity + 2, k, 1000) )
       => ( hist[k].ok <=>
              \/ k <= _capacity
              \/ ( k >= _capacity + 2
                   /\ k <= _capacity + 1 + Min(_capacity, _fill_rate) ) )

\* C6's case: the bucket was drained at the start, refused the next call,
\* and one second later granted min(C, fill_rate) calls and refused the next.
C6_Witness ==
    /\ Len(hist) = _capacity + 2 + Min(_capacity, _fill_rate)
    /\ FirstCallsAtStart(_capacity + 1)
    /\ CallsAfterWait(_capacity + 2, Len(hist), 1000)
    /\ hist[_capacity].ok
    /\ ~hist[_capacity + 1].ok
    /\ hist[_capacity + 2].ok
    /\ ~hist[Len(hist)].ok

\* C6 (as stated): ... after waiting 1/fill_rate seconds exactly one more
\* is_allowed(1) call returns true and the one after it returns false.
C6_OneMoreAfterFillInterval ==
    \A k \in 1..Len(hist) :
       ( /\ k <= _capacity + 3
         /\ FirstCallsAtStart(Min(k, _capacity + 1))
         /\ CallsAfterWait(_capacity + 2, k, 1000 \div _fill_rate) )
       => ( hist[k].ok <=> (k <= _capacity \/ k = _capacity + 2) )

\* C7: after construction and after any sequence of is_allowed calls the
\* bucket holds between 0 and capacity tokens.
C7_TokensWithinBounds == 0 <= _tokens /\ _tokens <= _capacity

\* C8: a probe that fails at the network level is answered 200 with status
\* -1 and stores -1 for the origin with the 300-second TTL; a later request
\* whose lookup finds that entry within its TTL is answered -1.
C8_UnreachableCached ==
    [][\A r \in Requests :
          /\ (pc[r] = "unreachable" /\ pc'[r] = "done") =>
                /\ reply'[r].code = 200
                /\ reply'[r].body.status = _UNREACHABLE_STATUS
                /\ cache'[u[r]] = [status |-> _UNREACHABLE_STATUS,
                                   expires_at |-> now + _CACHE_TTL * 1000]
          /\ (status[r] = <<_UNREACHABLE_STATUS>> /\ pc[r] # "done" /\ pc'[r] = "done") =>
                /\ reply'[r].code = 200
                /\ reply'[r].body.status = _UNREACHABLE_STATUS]_vars

\* C9: a request that ends with a server error (500) has made no cache
\* write.
C9_NoWriteOnServerError ==
    \A r \in Requests :
       (pc[r] = "done" /\ reply[r].code = 500) => writes[r] = 0

\* C10: every successful response carries a cached flag, true when the
\* answer was served from the cache and false when this request probed.
C10_CachedFlag ==
    \A r \in Requests :
       (pc[r] = "done" /\ reply[r].code = 200) =>
          /\ "cached" \in DOMAIN reply[r].body
          /\ reply[r].body.cached = (probes[r] = 0)

\* C11: the origin of every accepted website value has the form
\* scheme://host, the host part carrying no path, query or fragment, with
\* scheme https when the value names none; http://a.b/p?x gives http://a.b
\* and a.b/p gives https://a.b.
C11_OriginHasNoPath ==
    \A r \in Requests :
       u[r] # <<>> =>
          LET o == u[r]
              c == FirstIn(o, {":"})
              host == From(o, c + 3)
          IN /\ c > 1
             /\ SubSeq(o, c, c + 2) = <<":", "/", "/">>
             /\ host # <<>>
             /\ \A i \in 1..Len(host) : host[i] \notin {"/", "?", "#"}
             /\ (\A i \in 1..Len(website[r]) : website[r][i] # ":")
                   => SubSeq(o, 1, c - 1) = <<"h","t","t","p","s">>
             /\ website[r] = <<"h","t","t","p",":","/","/","a",".","b","/","p","?","x">>
                   => o = <<"h","t","t","p",":","/","/","a",".","b">>
             /\ website[r] = <<"a",".","b","/","p">>
                   => o = <<"h","t","t","p","s",":","/","/","a",".","b">>

\* C12: a website value is rejected exactly when it is longer than 128
\* characters, or holds a character outside [A-Za-z0-9.-] (or none at
\* all), or has no period or no host; every other value goes on to the
\* cache lookup.
C12_RejectedIffInvalid ==
    \A r \in Requests :
       LET w == website[r]
           invalid == \/ Len(w) = 0
                      \/ Len(w) > 128
                      \/ \E i \in 1..Len(w) : w[i] \notin PatternClass
                      \/ ~(\E i \in 1..Len(w) : w[i] = ".")
           rejected == pc[r] = "done" /\ reply[r].code \in {400, 422}
       IN pc[r] # "idle" => (rejected <=> invalid)

\* The call made by this step, when the step is an is_allowed call.
Called == hist' # hist

LastCall == hist'[Len(hist')]

\* C13: when is_allowed(cost) returns false no tokens are debited: the
\* bucket holds min(capacity, tokens_before + elapsed * fill_rate), and with
\* zero elapsed time exactly what it held before the call.
C13_RefusalDebitsNothing ==
    [][(Called /\ ~LastCall.ok) =>
          LET elapsed == Seconds(LastCall.t) - _last_time
              grown == _tokens + elapsed * _fill_rate
          IN /\ _tokens' = (IF grown < _capacity THEN grown ELSE _capacity)
             /\ (elapsed = 0 => _tokens' = _tokens)]_vars

\* C13's case: is_allowed(2) was refused with zero elapsed time while the
\* bucket held one token, and the token is still there.
C13_Witness ==
    /\ Len(hist) >= 2
    /\ hist[Len(hist)].cost = 2
    /\ ~hist[Len(hist)].ok
    /\ Seconds(hist[Len(hist)].t) = Seconds(hist[Len(hist) - 1].t)
    /\ _tokens = 1

\* C14: a call at a clock reading earlier than the stored last-refill time
\* treats the elapsed time as zero: the refill never lowers the token
\* count, so the count before the debit is at least the count before the
\* call.
C14_RefillNeverLowersTokens ==
    [][Called =>
          _tokens' + (IF LastCall.ok THEN LastCall.cost ELSE 0) >= _tokens]_vars

\* Number of calls among the first k that returned true.
RECURSIVE Granted(_)
Granted(k) == IF k = 0 THEN 0 ELSE Granted(k - 1) + (IF hist[k].ok THEN 1 ELSE 0)

C15_HitLeavesLimiterAlone ==
    [][\A r \in Requests :
          ( \/ (pc[r] = "idle" /\ pc'[r] = "ttl")
            \/ (pc[r] = "ttl" /\ pc'[r] = "done") )
          => (_tokens' = _tokens /\ _last_time' = _last_time)]_vars

\* C15's case: a request was answered 200 from the cache, without a probe.
C15_Witness ==
    \E r \in Requests :
       /\ pc[r] = "done"
       /\ reply[r].code = 200
       /\ probes[r] = 0
       /\ _tokens = _capacity

\* C16: the status of a cache-hit response is the status of the entry from
\* whose expiry its last_checked is derived: no other entry was written
\* for the origin between the two cache reads.
C16_HitFromOneEntry ==
    [][\A r \in Requests :
          (pc[r] = "ttl" /\ pc'[r] = "done") =>
             reply'[r].body.status = cache[u[r]].status]_vars

\* C17: every store replaces the whole entry of its origin (status and
\* expiry together) and touches no other entry, nothing else changes the
\* cache, so the entry is always the one of the last store to commit; and
\* a request that probed reports the status of its own probe (the status
\* code it received, or -1 when its probe failed).
C17_LastWriterWins ==
    [][/\ \A r \in Requests :
            writes'[r] # writes[r] =>
               /\ DOMAIN cache' = (DOMAIN cache) \cup {u[r]}
               /\ cache'[u[r]] =
                     [status |-> IF pc[r] = "set" THEN response[r][1]
                                 ELSE _UNREACHABLE_STATUS,
                      expires_at |-> now + _CACHE_TTL * 1000]
               /\ \A k \in DOMAIN cache : k # u[r] => cache'[k] = cache[k]
       /\ (writes' = writes => cache' = cache)
       /\ \A r \in Requests :
            (pc[r] # "done" /\ pc'[r] = "done" /\ reply'[r].code = 200 /\ probes[r] > 0) =>
               reply'[r].body.status =
                  (IF pc[r] = "exit" THEN response[r][1] ELSE _UNREACHABLE_STATUS)]_vars

\* C17's case: two requests missed the cache for the same origin at the
\* same time, both probed and stored, and their answers differ.
C17_Witness ==
    /\ NumRequests >= 2
    /\ now = StartTime
    /\ u[1] # <<>>
    /\ u[1] = u[2]
    /\ probes[1] = 1 /\ probes[2] = 1
    /\ writes[1] = 1 /\ writes[2] = 1
    /\ pc[1] = "done" /\ pc[2] = "done"
    /\ reply[1].code = 200 /\ reply[2].code = 200
    /\ reply[1].body.status # reply[2].body.status
    /\ cache[u[1]].status \in {reply[1].body.status, reply[2].body.status}

C20_AtMostOneProbe ==
    /\ \A r \in Requests : probes[r] <= 1
    /\ Len(hist) <= Cardinality({r \in Requests : pc[r] # "idle"})

\* C20's case: a request whose probe failed while the response was closed
\* (after a first store) ended as unreachable, with one probe.
C20_Witness ==
    \E r \in Requests :
       /\ pc[r] = "done"
       /\ writes[r] = 2
       /\ probes[r] = 1
       /\ reply[r].body.status = _UNREACHABLE_STATUS

====
